---- MODULE Spec2Model ----
(***************************************************************************)
(* Model of ApiService (src/index.ts): the request/response pipeline of a  *)
(* generic HTTP client.  One request slot holds the state of one call of   *)
(* get/post/put/patch/delete: its position in the async function           *)
(* ApiService.request, its local variables, and a record of what it did.   *)
(* The facade state (default headers, the two interceptor lists) is shared *)
(* and can be changed by the caller at every suspension point of a request.*)
(*                                                                         *)
(* Strings that the code inspects (URLs, placeholder keys) are sequences   *)
(* of one-character strings.  JavaScript values the code only tests for    *)
(* truthiness and typeof (bodies) are named by their kind.                 *)
(***************************************************************************)
EXTENDS Integers, Sequences, FiniteSets, TLC

\* Bounds of the model.
MaxInterceptors == 2      \* registrations accepted over both lists

\* ------------------------------------------------------------------------
\* JavaScript values
\* ------------------------------------------------------------------------
Undefined == "undefined"

\* Kinds of value a caller can pass as `body?: any`.
Bodies ==
    { "undefined", "null", "object", "cyclic",
      "string", "emptyString", "number", "zero", "true", "false" }

\* ToBoolean(body): the `options.body &&` / `if (config.body)` tests.
Truthy(b) == b \in { "object", "cyclic", "string", "number", "true" }

\* typeof body === "object" (true of null as well).
TypeofObject(b) == b \in { "null", "object", "cyclic" }

Primitive(b) == b \in { "string", "emptyString", "number", "zero", "true", "false" }

\* Values a `throw` / a rejected promise can carry.  An Error has a message;
\* a thrown string or plain object has none; null/undefined has no
\* properties at all.
ErrBoom     == [kind |-> "error",   message |-> "boom"]
ErrNoMsg    == [kind |-> "value",   message |-> Undefined]
ErrNullish  == [kind |-> "nullish", message |-> Undefined]
FaultValues == { ErrBoom, ErrNoMsg, ErrNullish }

\* Faults raised by the runtime itself.
ErrCircular == [kind |-> "error", message |-> "Converting circular structure to JSON"]
ErrBodyUsed == [kind |-> "error", message |-> "Body has already been read"]
ErrTypeError == [kind |-> "error", message |-> "Cannot read properties of undefined"]

\* ------------------------------------------------------------------------
\* Strings
\* ------------------------------------------------------------------------
RECURSIVE Flatten(_)
Flatten(ss) == IF ss = <<>> THEN <<>> ELSE Head(ss) \o Flatten(Tail(ss))

\* Characters encodeURIComponent leaves alone (of the model's alphabet).
Unreserved == { "a", "h", "i", "d", "u", "x", "7", "-", "_", "." }

EscapeOf(c) ==
    CASE c = ":" -> <<"%", "3", "A">>
      [] c = "/" -> <<"%", "2", "F">>
      [] c = "?" -> <<"%", "3", "F">>
      [] c = "=" -> <<"%", "3", "D">>
      [] c = "&" -> <<"%", "2", "6">>
      [] c = " " -> <<"%", "2", "0">>
      [] OTHER   -> <<"%", "2", "5">>

encodeURIComponent(s) ==
    Flatten([k \in 1..Len(s) |-> IF s[k] \in Unreserved THEN <<s[k]>> ELSE EscapeOf(s[k])])

\* Index of the first occurrence of pat in s, 0 when there is none.
IndexOf(s, pat) ==
    LET hits == { k \in 1..(Len(s) - Len(pat) + 1) : SubSeq(s, k, k + Len(pat) - 1) = pat }
    IN  IF hits = {} THEN 0 ELSE CHOOSE k \in hits : \A m \in hits : k <= m

\* String.prototype.replace with a string pattern: the first occurrence only.
Replace(s, pat, by) ==
    LET k == IndexOf(s, pat)
    IN  IF k = 0 THEN s
        ELSE SubSeq(s, 1, k - 1) \o by \o SubSeq(s, k + Len(pat), Len(s))

\* ------------------------------------------------------------------------
\* URL Builder (ApiService.buildUrl)
\* ------------------------------------------------------------------------
\* pathParams / queryParams are the entries of the mapping in Object.keys
\* order, each <<key, value>> with key and String(value) as strings.
RECURSIVE SubstitutePathParams(_, _)
SubstitutePathParams(url, pathParams) ==
    IF pathParams = <<>> THEN url
    ELSE LET key == Head(pathParams)[1]
             val == Head(pathParams)[2]
         IN  SubstitutePathParams(Replace(url, <<":">> \o key, encodeURIComponent(val)),
                                  Tail(pathParams))

RECURSIVE JoinQuery(_)
JoinQuery(queryParams) ==
    IF queryParams = <<>> THEN <<>>
    ELSE LET pair == encodeURIComponent(Head(queryParams)[1]) \o <<"=">>
                     \o encodeURIComponent(Head(queryParams)[2])
         IN  IF Len(queryParams) = 1 THEN pair
             ELSE pair \o <<"&">> \o JoinQuery(Tail(queryParams))

buildUrl(base, endpoint, pathParams, queryParams) ==
    LET substituted == SubstitutePathParams(base \o endpoint, pathParams)
        query       == JoinQuery(queryParams)
    IN  IF query # <<>> THEN substituted \o <<"?">> \o query ELSE substituted

\* ------------------------------------------------------------------------
\* Headers: a mapping from header name to value
\* ------------------------------------------------------------------------
NoHeaders == [k \in {} |-> ""]

\* MergeHeaders in which a default wins over the per-call header of its key.
MergeHeadersDefaultsWin(defaults, extra) ==
    [k \in (DOMAIN defaults) \cup (DOMAIN extra) |->
        IF k \in DOMAIN defaults THEN defaults[k] ELSE extra[k]]

\* { ...this.defaultHeaders, ...(options.headers ?? {}) }
MergeHeaders(defaults, extra) ==
    [k \in (DOMAIN defaults) \cup (DOMAIN extra) |->
        IF k \in DOMAIN extra THEN extra[k] ELSE defaults[k]]

SetHeader(h, key, value) ==
    [k \in (DOMAIN h) \cup {key} |-> IF k = key THEN value ELSE h[k]]

\* ------------------------------------------------------------------------
\* Body Validator (ApiService.validateRequestBody)
\* ------------------------------------------------------------------------
validateRequestBody(body) ==
    IF body \in { "null", "undefined" } THEN TRUE
    ELSE IF TypeofObject(body) THEN TRUE
    ELSE FALSE

\* The test of line 113: `options.body && !this.validateRequestBody(options.body)`.
BodyRejected(body) == Truthy(body) /\ ~validateRequestBody(body)

\* JSON.stringify(config.body): faults on a value it cannot serialize.
StringifyFaults(body) == body = "cyclic"
Stringified(body) == [json |-> body]
NoWireBody == [json |-> Undefined]

\* ------------------------------------------------------------------------
\* Envelopes (ApiResponse) built by ApiService.request
\* ------------------------------------------------------------------------
InvalidBodyEnvelope ==
    [success |-> FALSE,
     error |-> [type |-> "VALIDATION_ERROR", message |-> "Invalid request body"]]

StringifyFailedEnvelope(err) ==
    [success |-> FALSE,
     error |-> [type |-> "VALIDATION_ERROR",
                message |-> "Failed to stringify request body", details |-> err]]

\* responseData?.message || "Request failed"
ApiErrorMessage(responseData) ==
    LET m == IF responseData.kind = "null" THEN Undefined ELSE responseData.message
    IN  IF m \in { Undefined, "" } THEN "Request failed" ELSE m

\* ApiErrorEnvelope that keeps the payload as data as well.
ApiErrorEnvelopeWithData(status, responseData) ==
    [success |-> FALSE, data |-> responseData,
     error |-> [type |-> "API_ERROR", message |-> ApiErrorMessage(responseData),
                status |-> status, details |-> responseData]]

ApiErrorEnvelope(status, responseData) ==
    [success |-> FALSE,
     error |-> [type |-> "API_ERROR", message |-> ApiErrorMessage(responseData),
                status |-> status, details |-> responseData]]

SuccessEnvelope(responseData) == [success |-> TRUE, data |-> responseData]

\* err.message ?? "Network error" (err is neither null nor undefined here)
NetworkErrorMessage(err) ==
    IF err.message = Undefined THEN "Network error" ELSE err.message

\* NetworkErrorEnvelope that carries a status as well.
NetworkErrorEnvelopeWithStatus(err) ==
    [success |-> FALSE,
     error |-> [type |-> "NETWORK_ERROR", message |-> NetworkErrorMessage(err),
                status |-> 0, details |-> err]]

NetworkErrorEnvelope(err) ==
    [success |-> FALSE,
     error |-> [type |-> "NETWORK_ERROR", message |-> NetworkErrorMessage(err),
                details |-> err]]

\* response.ok of the transport's Response: status in 200..299.
ResponseOk(status) == status >= 200 /\ status <= 299

ClassifyResponse(status, responseData) ==
    IF ~ResponseOk(status) THEN ApiErrorEnvelope(status, responseData)
    ELSE SuccessEnvelope(responseData)

\* ------------------------------------------------------------------------
\* Interceptors (user code registered with the facade)
\* ------------------------------------------------------------------------
\* What one interceptor invocation does: it returns a value or it faults.
Returns  == [kind |-> "return", message |-> Undefined]
Outcomes == { Returns } \cup FaultValues

\* The outcomes to choose from for an invocation that happens only if `called`.
OutcomesIf(called) == IF called THEN Outcomes ELSE { Returns }

\* Request interceptors: "auth" sets the Authorization header on the config it
\* is given (src/example/index.ts); "route" returns a new config with another
\* url and method.
RequestInterceptorKinds == { "auth", "route" }

ApplyRequestInterceptor(id, config) ==
    IF id = "auth"
    THEN [config EXCEPT !.headers = SetHeader(@, "Authorization", "Bearer")]
    ELSE [config EXCEPT !.url = @ \o <<"x">>, !.method = "GET"]

\* Response interceptors: "audit" inspects the envelope and returns it as it is
\* (src/example/index.ts); "tag" returns a rewritten envelope.
ResponseInterceptorKinds == { "audit", "tag" }

Mapped == [kind |-> "object", message |-> "mapped"]

ApplyResponseInterceptor(id, response) ==
    IF id = "audit" THEN response
    ELSE IF response.success THEN [response EXCEPT !.data = Mapped]
    ELSE [response EXCEPT !.error.message = "handled"]

\* runRequestInterceptors with a loop that steps over the next interceptor.
runRequestInterceptorsSkip(updatedConfig, i, requestInterceptors, out) ==
    IF i < Len(requestInterceptors)
    THEN LET interceptor == requestInterceptors[i + 1]
         IN  IF out = Returns
             THEN [status |-> "await", i |-> i + 2, called |-> <<interceptor>>, fault |-> out,
                   value |-> ApplyRequestInterceptor(interceptor, updatedConfig)]
             ELSE [status |-> "throw", i |-> i + 2, called |-> <<interceptor>>, fault |-> out,
                   value |-> updatedConfig]
    ELSE [status |-> "return", i |-> i, called |-> <<>>, fault |-> out,
          value |-> updatedConfig]

\* One turn of the loop of runRequestInterceptors, from the point where the
\* function resumes (or starts) to its next await, its return or a fault:
\* the loop test reads the list as it is now, then the interceptor is called.
runRequestInterceptors(updatedConfig, i, requestInterceptors, out) ==
    IF i < Len(requestInterceptors)
    THEN LET interceptor == requestInterceptors[i + 1]
         IN  IF out = Returns
             THEN [status |-> "await", i |-> i + 1, called |-> <<interceptor>>, fault |-> out,
                   value |-> ApplyRequestInterceptor(interceptor, updatedConfig)]
             ELSE [status |-> "throw", i |-> i + 1, called |-> <<interceptor>>, fault |-> out,
                   value |-> updatedConfig]
    ELSE [status |-> "return", i |-> i, called |-> <<>>, fault |-> out,
          value |-> updatedConfig]

\* One turn of the loop of runResponseInterceptors, likewise.
runResponseInterceptors(updatedResponse, j, responseInterceptors, out) ==
    IF j < Len(responseInterceptors)
    THEN LET interceptor == responseInterceptors[j + 1]
         IN  IF out = Returns
             THEN [status |-> "await", i |-> j + 1, called |-> <<interceptor>>, fault |-> out,
                   value |-> ApplyResponseInterceptor(interceptor, updatedResponse)]
             ELSE [status |-> "throw", i |-> j + 1, called |-> <<interceptor>>, fault |-> out,
                   value |-> updatedResponse]
    ELSE [status |-> "return", i |-> j, called |-> <<>>, fault |-> out,
          value |-> updatedResponse]

\* The record of one interceptor invocation.
Invocation(run, a, input) ==
    [run |-> run, id |-> a.called[1], in |-> input, out |-> a.value,
     ok |-> a.status = "await", fault |-> a.fault]

\* ------------------------------------------------------------------------
\* The transport (fetch) as seen by ApiService.request
\* ------------------------------------------------------------------------
\* What response.json() yields for the payloads of the model.
PayloadMessage  == [kind |-> "object", message |-> "bad token"]
PayloadEmptyMsg == [kind |-> "object", message |-> ""]
PayloadNoMsg    == [kind |-> "object", message |-> Undefined]
PayloadNull     == [kind |-> "null",   message |-> Undefined]
RawText         == [kind |-> "text",   message |-> Undefined]

\* A response body: parseable as JSON or not.  A body that is not JSON has been
\* consumed by the failed json() call; `reread` says whether text() can still
\* deliver it (FALSE for a Response whose body is a one-shot stream, as the
\* Fetch standard has it; TRUE for a transport that serves text() separately).
ResponseBodies ==
    { [json |-> TRUE, value |-> v, reread |-> FALSE] :
          v \in { PayloadMessage, PayloadEmptyMsg, PayloadNoMsg, PayloadNull } }
    \cup { [json |-> FALSE, value |-> RawText, reread |-> b] : b \in BOOLEAN }

Statuses  == { 200, 299, 300, 401 }
Responses == [status : Statuses, body : ResponseBodies]
NoResponse == [status |-> 0, body |-> [json |-> FALSE, value |-> RawText, reread |-> FALSE]]

\* Lines 140-146: responseData, or the fault of the fallback read.
ReadResponseData(body) ==
    IF body.json THEN [ok |-> TRUE, data |-> body.value, fault |-> Returns]
    ELSE IF body.reread THEN [ok |-> TRUE, data |-> body.value, fault |-> Returns]
    ELSE [ok |-> FALSE, data |-> body.value, fault |-> ErrBodyUsed]

\* ------------------------------------------------------------------------
\* One call of ApiService.request
\* ------------------------------------------------------------------------
NoConfig   == [url |-> <<>>, method |-> "GET", headers |-> NoHeaders, body |-> "undefined"]
NoEnvelope == [none |-> TRUE]
NoCall     == [url |-> <<>>, method |-> "GET", headers |-> NoHeaders, body |-> NoWireBody]

\* pc: idle | reqChain (awaiting a request interceptor) | fetch (awaiting the
\* transport) | respChain (awaiting a response interceptor) | returned | raised.
\* fetches, built, chainIn, reqLog, respLog, reqExit, respExit record what the
\* call did: the number of transport calls, the envelopes it constructed, the
\* input of each response-chain run, the interceptor invocations, and the lists
\* as the loops found them when they ended; registered is the list of response
\* interceptors at the moment the call returned.  call holds the arguments of the
\* pending transport call; settled, rejection and response what the transport
\* did; fault the value the call raised.
NewRequest ==
    [pc |-> "idle", method |-> "GET", body |-> "undefined",
     cfgIn |-> NoConfig, config |-> NoConfig, i |-> 0,
     call |-> NoCall, settled |-> "no", rejection |-> Returns, response |-> NoResponse,
     env |-> NoEnvelope, j |-> 0, phase |-> "try",
     fault |-> Returns,
     fetches |-> 0, built |-> <<>>, chainIn |-> <<>>,
     reqLog |-> <<>>, respLog |-> <<>>,
     reqExit |-> <<>>, respExit |-> <<>>, registered |-> <<>>]

Raise(s, err)      == [s EXCEPT !.pc = "raised", !.fault = err]
Return(s, response, responseInterceptors) ==
    [s EXCEPT !.pc = "returned", !.env = response, !.registered = responseInterceptors]

\* Line 176 from a resumption point: the response chain run inside the catch
\* block.  A fault of an interceptor leaves request() uncaught.
CatchChainStep(s, responseInterceptors, out) ==
    LET a == runResponseInterceptors(s.env, s.j, responseInterceptors, out)
    IN  IF a.status = "return"
        THEN Return([s EXCEPT !.respExit = responseInterceptors], a.value,
                    responseInterceptors)
        ELSE LET logged == [s EXCEPT !.respLog =
                                Append(@, Invocation(Len(s.chainIn), a, s.env))]
             IN  IF a.status = "await"
                 THEN [logged EXCEPT !.pc = "respChain", !.env = a.value, !.j = a.i]
                 ELSE Raise(logged, a.fault)

\* Lines 166-177: the catch block with the caught value err.  Reading
\* err.message of null or undefined is a TypeError raised inside the handler.
CatchBlock(s, err, responseInterceptors, out) ==
    IF err.kind = "nullish" THEN Raise(s, ErrTypeError)
    ELSE LET errorResponse == NetworkErrorEnvelope(err)
         IN  CatchChainStep([s EXCEPT !.phase = "catch", !.env = errorResponse, !.j = 0,
                                        !.built = Append(@, errorResponse),
                                        !.chainIn = Append(@, [phase |-> "catch",
                                                               env |-> errorResponse])],
                            responseInterceptors, out)

\* TryChainStep without the enclosing try: a fault leaves request() at once.
TryChainStepUncaught(s, responseInterceptors, out, out2) ==
    LET a == runResponseInterceptors(s.env, s.j, responseInterceptors, out)
    IN  IF a.status = "return"
        THEN Return([s EXCEPT !.respExit = responseInterceptors], a.value,
                    responseInterceptors)
        ELSE LET logged == [s EXCEPT !.respLog =
                                Append(@, Invocation(Len(s.chainIn), a, s.env))]
             IN  IF a.status = "await"
                 THEN [logged EXCEPT !.pc = "respChain", !.env = a.value, !.j = a.i]
                 ELSE Raise(logged, a.fault)

\* Line 165 from a resumption point: the response chain run inside the try
\* block (`return await`), so that a fault of an interceptor is caught.
TryChainStep(s, responseInterceptors, out, out2) ==
    LET a == runResponseInterceptors(s.env, s.j, responseInterceptors, out)
    IN  IF a.status = "return"
        THEN Return([s EXCEPT !.respExit = responseInterceptors], a.value,
                    responseInterceptors)
        ELSE LET logged == [s EXCEPT !.respLog =
                                Append(@, Invocation(Len(s.chainIn), a, s.env))]
             IN  IF a.status = "await"
                 THEN [logged EXCEPT !.pc = "respChain", !.env = a.value, !.j = a.i]
                 ELSE CatchBlock(logged, a.fault, responseInterceptors, out2)

\* SendRequest that passes the headers merged at line 111 to the transport,
\* not those of the config the interceptors returned.
SendRequestStaleHeaders(s, responseInterceptors) ==
    LET config == s.config
    IN  IF Truthy(config.body) /\ StringifyFaults(config.body)
        THEN LET rejected == StringifyFailedEnvelope(ErrCircular)
             IN  Return([s EXCEPT !.built = Append(@, rejected)], rejected,
                        responseInterceptors)
        ELSE [s EXCEPT !.pc = "fetch",
                       !.fetches = @ + 1,
                       !.call = [url |-> config.url, method |-> config.method,
                                 headers |-> s.cfgIn.headers,
                                 body |-> IF Truthy(config.body)
                                          THEN Stringified(config.body)
                                          ELSE NoWireBody]]

\* SendRequest that has called the transport by the time the serialization
\* fault is classified.
SendRequestBeforeStringify(s, responseInterceptors) ==
    LET config == s.config
    IN  IF Truthy(config.body) /\ StringifyFaults(config.body)
        THEN LET rejected == StringifyFailedEnvelope(ErrCircular)
             IN  Return([s EXCEPT !.built = Append(@, rejected), !.fetches = @ + 1],
                        rejected, responseInterceptors)
        ELSE [s EXCEPT !.pc = "fetch",
                       !.fetches = @ + 1,
                       !.call = [url |-> config.url, method |-> config.method,
                                 headers |-> config.headers,
                                 body |-> IF Truthy(config.body)
                                          THEN Stringified(config.body)
                                          ELSE NoWireBody]]

\* Lines 123-138: serialize the body and call the transport.
SendRequest(s, responseInterceptors) ==
    LET config == s.config
    IN  IF Truthy(config.body) /\ StringifyFaults(config.body)
        THEN LET rejected == StringifyFailedEnvelope(ErrCircular)
             IN  Return([s EXCEPT !.built = Append(@, rejected)], rejected,
                        responseInterceptors)
        ELSE [s EXCEPT !.pc = "fetch",
                       !.fetches = @ + 1,
                       !.call = [url |-> config.url, method |-> config.method,
                                 headers |-> config.headers,
                                 body |-> IF Truthy(config.body)
                                          THEN Stringified(config.body)
                                          ELSE NoWireBody]]

\* RequestChainStep that swallows the fault of an interceptor and goes on.
RequestChainStepSwallow(s, requestInterceptors, responseInterceptors, out, out2) ==
    LET a == runRequestInterceptors(s.config, s.i, requestInterceptors, out)
    IN  IF a.status = "return"
        THEN SendRequest([s EXCEPT !.reqExit = requestInterceptors], responseInterceptors)
        ELSE [s EXCEPT !.reqLog = Append(@, Invocation(1, a, s.config)),
                       !.pc = "reqChain", !.config = a.value, !.i = a.i]

\* Line 121 from a resumption point.
RequestChainStep(s, requestInterceptors, responseInterceptors, out, out2) ==
    LET a == runRequestInterceptors(s.config, s.i, requestInterceptors, out)
    IN  IF a.status = "return"
        THEN SendRequest([s EXCEPT !.reqExit = requestInterceptors], responseInterceptors)
        ELSE LET logged == [s EXCEPT !.reqLog = Append(@, Invocation(1, a, s.config))]
             IN  IF a.status = "await"
                 THEN [logged EXCEPT !.pc = "reqChain", !.config = a.value, !.i = a.i]
                 ELSE CatchBlock(logged, a.fault, responseInterceptors, out2)

\* request() that merges the per-call headers over the default headers the
\* constructor set, not over this.defaultHeaders as they are at the call.
requestStaleDefaults(method, endpoint, options, base, defaults, requestInterceptors, responseInterceptors, out, out2) ==
    LET url     == buildUrl(base, endpoint, options.pathParams, options.queryParams)
        headers == MergeHeaders(("Content-Type" :> "application/json"), options.headers)
        s       == [NewRequest EXCEPT !.method = method, !.body = options.body]
    IN  IF BodyRejected(options.body)
        THEN Return([s EXCEPT !.built = <<InvalidBodyEnvelope>>], InvalidBodyEnvelope,
                    responseInterceptors)
        ELSE LET config == [url |-> url, method |-> method, headers |-> headers,
                            body |-> options.body]
             IN  RequestChainStep([s EXCEPT !.cfgIn = config, !.config = config],
                                  requestInterceptors, responseInterceptors, out, out2)

\* Lines 109-121: request() from its call to its first suspension.
request(method, endpoint, options, base, defaults, requestInterceptors, responseInterceptors, out, out2) ==
    LET url     == buildUrl(base, endpoint, options.pathParams, options.queryParams)
        headers == MergeHeaders(defaults, options.headers)
        s       == [NewRequest EXCEPT !.method = method, !.body = options.body]
    IN  IF BodyRejected(options.body)
        THEN Return([s EXCEPT !.built = <<InvalidBodyEnvelope>>], InvalidBodyEnvelope,
                    responseInterceptors)
        ELSE LET config == [url |-> url, method |-> method, headers |-> headers,
                            body |-> options.body]
             IN  RequestChainStep([s EXCEPT !.cfgIn = config, !.config = config],
                                  requestInterceptors, responseInterceptors, out, out2)

\* Line 138, the await ends.  config is used for logging alone from here on:
\* the record of the request side of the call is dropped.
Settle(s, how, err, response) ==
    [s EXCEPT !.settled = how, !.rejection = err, !.response = response,
              !.method = NewRequest.method, !.body = NewRequest.body,
              !.cfgIn = NoConfig, !.config = NoConfig, !.i = 0, !.call = NoCall,
              !.reqLog = <<>>, !.reqExit = <<>>]

\* Lines 138, 166-177: the transport call faulted.
HandleFault(s, err, responseInterceptors, out) ==
    CatchBlock(Settle(s, "fault", err, NoResponse), err, responseInterceptors, out)

\* Lines 138-165: the transport answered; read, classify, enter the chain.
HandleResponse(s, response, responseInterceptors, out, out2) ==
    LET read == ReadResponseData(response.body)
        got  == Settle(s, "response", Returns, response)
    IN  IF ~read.ok THEN CatchBlock(got, read.fault, responseInterceptors, out)
        ELSE LET apiResponse == ClassifyResponse(response.status, read.data)
             IN  TryChainStep([got EXCEPT !.phase = "try", !.env = apiResponse, !.j = 0,
                                          !.built = Append(@, apiResponse),
                                          !.chainIn = Append(@, [phase |-> "try",
                                                                 env |-> apiResponse])],
                              responseInterceptors, out, out2)

\* ------------------------------------------------------------------------
\* State
\* ------------------------------------------------------------------------
VARIABLES
    baseURL,               \* this.baseURL
    defaultHeaders,        \* this.defaultHeaders
    requestInterceptors,   \* this.requestInterceptors
    responseInterceptors,  \* this.responseInterceptors
    req                    \* the calls of request(), by slot

vars == <<baseURL, defaultHeaders, requestInterceptors, responseInterceptors, req>>

Slots == DOMAIN req

\* What callers pass besides the body: endpoint and per-call options.
Calls ==
    { [endpoint |-> <<"/", "u">>, headers |-> NoHeaders,
       pathParams |-> <<>>, queryParams |-> <<>>],
      [endpoint |-> <<"/", "u", "/", ":", "i", "d">>,
       headers |-> ("Content-Type" :> "text/plain"),
       pathParams |-> << << <<"i", "d">>, <<"7">> >> >>,
       queryParams |-> << << <<"a">>, <<"x", " ">> >> >>] }

DefaultHeaderUpdates == { <<"Authorization", "token">> }

\* constructor(options): baseURL given, the other options defaulted.
Init ==
    /\ baseURL = <<"h">>
    /\ defaultHeaders = ("Content-Type" :> "application/json")
    /\ requestInterceptors = <<>>
    /\ responseInterceptors = <<>>
    /\ req = [r \in {1} |-> NewRequest]

Facade == <<baseURL, defaultHeaders, requestInterceptors, responseInterceptors>>

\* A slot holds one call.
Free(r) == req[r].pc = "idle"

Start(r, method, call, body) ==
    /\ Free(r)
    /\ \E out \in OutcomesIf(requestInterceptors # <<>>),
          out2 \in OutcomesIf(responseInterceptors # <<>>) :
          /\ out = Returns => out2 = Returns
          /\
             req' = [req EXCEPT ![r] =
                    request(method, call.endpoint,
                            [body |-> body, headers |-> call.headers,
                             pathParams |-> call.pathParams,
                             queryParams |-> call.queryParams],
                            baseURL, defaultHeaders,
                            requestInterceptors, responseInterceptors, out, out2)]
    /\ UNCHANGED Facade

\* The convenience methods.
get(r)    == \E call \in Calls : Start(r, "GET", call, "undefined")
post(r)   == \E call \in Calls, body \in Bodies : Start(r, "POST", call, body)
put(r)    == \E call \in Calls, body \in Bodies : Start(r, "PUT", call, body)
patch(r)  == \E call \in Calls, body \in Bodies : Start(r, "PATCH", call, body)
delete(r) == \E call \in Calls : Start(r, "DELETE", call, "undefined")

\* A request interceptor settled: the loop of runRequestInterceptors goes on.
ResumeRequestChain(r) ==
    /\ req[r].pc = "reqChain"
    /\ \E out \in OutcomesIf(req[r].i < Len(requestInterceptors)),
          out2 \in OutcomesIf(responseInterceptors # <<>>) :
          /\ out = Returns => out2 = Returns
          /\ req' = [req EXCEPT ![r] =
                    RequestChainStep(req[r], requestInterceptors, responseInterceptors,
                                     out, out2)]
    /\ UNCHANGED Facade

\* The transport call faulted (fetch rejected).
TransportFaults(r) ==
    /\ req[r].pc = "fetch"
    /\ \E err \in FaultValues, out \in OutcomesIf(responseInterceptors # <<>>) :
          req' = [req EXCEPT ![r] = HandleFault(req[r], err, responseInterceptors, out)]
    /\ UNCHANGED Facade

\* The transport call answered with a status and a payload.
TransportResponds(r) ==
    /\ req[r].pc = "fetch"
    /\ \E response \in Responses, out \in OutcomesIf(responseInterceptors # <<>>),
          out2 \in OutcomesIf(responseInterceptors # <<>>) :
          /\ out = Returns => out2 = Returns
          /\ req' = [req EXCEPT ![r] =
                    HandleResponse(req[r], response, responseInterceptors, out, out2)]
    /\ UNCHANGED Facade

\* A response interceptor settled: the loop of runResponseInterceptors goes on.
ResumeResponseChain(r) ==
    /\ req[r].pc = "respChain"
    /\ \E out \in OutcomesIf(req[r].j < Len(responseInterceptors)),
          out2 \in OutcomesIf(req[r].phase = "try") :
          /\ out = Returns => out2 = Returns
          /\ req' = [req EXCEPT ![r] =
                    IF req[r].phase = "try"
                    THEN TryChainStep(req[r], responseInterceptors, out, out2)
                    ELSE CatchChainStep(req[r], responseInterceptors, out)]
    /\ UNCHANGED Facade

Registered == Len(requestInterceptors) + Len(responseInterceptors)

setDefaultHeader ==
    /\ \E kv \in DefaultHeaderUpdates :
          defaultHeaders' = SetHeader(defaultHeaders, kv[1], kv[2])
    /\ UNCHANGED <<baseURL, requestInterceptors, responseInterceptors, req>>

addRequestInterceptor ==
    /\ Registered < MaxInterceptors
    /\ \E interceptor \in RequestInterceptorKinds :
          requestInterceptors' = Append(requestInterceptors, interceptor)
    /\ UNCHANGED <<baseURL, defaultHeaders, responseInterceptors, req>>

addResponseInterceptor ==
    /\ Registered < MaxInterceptors
    /\ \E interceptor \in ResponseInterceptorKinds :
          responseInterceptors' = Append(responseInterceptors, interceptor)
    /\ UNCHANGED <<baseURL, defaultHeaders, requestInterceptors, req>>

Next ==
    \/ \E r \in Slots : get(r)
    \/ \E r \in Slots : post(r)
    \/ \E r \in Slots : put(r)
    \/ \E r \in Slots : patch(r)
    \/ \E r \in Slots : delete(r)
    \/ \E r \in Slots : ResumeRequestChain(r)
    \/ \E r \in Slots : TransportFaults(r)
    \/ \E r \in Slots : TransportResponds(r)
    \/ \E r \in Slots : ResumeResponseChain(r)
    \/ setDefaultHeader
    \/ addRequestInterceptor
    \/ addResponseInterceptor

Spec == Init /\ [][Next]_vars

\* ------------------------------------------------------------------------
\* Several calls of one facade in flight
\* ------------------------------------------------------------------------
\* The identity of the object a call's config.headers refers to.  Objects that
\* can be written after they are made are this.defaultHeaders (setDefaultHeader
\* writes into it) and the headers of a config (a request interceptor may
\* write into the config it is given).
DefaultsObject == "this.defaultHeaders"

\* HeadersObject of a merge made into this.defaultHeaders itself
\* (Object.assign(this.defaultHeaders, options.headers)).
HeadersObjectShared(r) == DefaultsObject

\* Line 111: the merge is an object literal, a new object of the call.
HeadersObject(r) == <<"headers", r>>

\* A call of request() together with what is recorded about it: the per-call
\* headers the caller passed, this.defaultHeaders and the lengths of the two
\* lists as they were when the call (the response chain) began, and the
\* identity of the headers object.
NoTrack ==
    [optHeaders |-> NoHeaders, defaultsAt |-> NoHeaders, headersObj |-> <<"headers", 0>>,
     reqAtStart |-> 0, respAtStart |-> 0]

Tracked(s, track) ==
    [f \in (DOMAIN s) \cup (DOMAIN track) |-> IF f \in DOMAIN track THEN track[f] ELSE s[f]]

\* A call holds a config from its invocation until the transport settles.
HoldsConfig(s) == s.pc \in { "reqChain", "fetch" }

\* The headers a call's config refers to, read through the object's identity.
HeadersOf(s) ==
    IF s.headersObj = DefaultsObject THEN defaultHeaders ELSE s.config.headers

Deref(s) == [s EXCEPT !.config.headers = HeadersOf(s)]

\* this.defaultHeaders after a step that left the call in t: what the step
\* wrote into the headers object is in this.defaultHeaders if it is that object.
DefaultsAfter(t) ==
    IF t.headersObj = DefaultsObject /\ HoldsConfig(t) THEN t.config.headers
    ELSE defaultHeaders

ConcurrentMethods   == { "GET", "POST" }
ConcurrentResponses == { [status |-> 200, body |-> [json |-> TRUE, value |-> PayloadMessage, reread |-> FALSE]] }

ConcurrentInit ==
    /\ baseURL = <<"h">>
    /\ defaultHeaders = ("Content-Type" :> "application/json")
    /\ requestInterceptors = <<>>
    /\ responseInterceptors = <<>>
    /\ req = [r \in {1, 2} |-> Tracked(NewRequest, NoTrack)]

\* get / post with a body that passes validation, every interceptor returning.
Invoke(r) ==
    /\ Free(r)
    /\ \E method \in ConcurrentMethods, call \in Calls :
          LET body == IF method = "GET" THEN "undefined" ELSE "object"
              s == request(method, call.endpoint,
                           [body |-> body, headers |-> call.headers,
                            pathParams |-> call.pathParams,
                            queryParams |-> call.queryParams],
                           baseURL, defaultHeaders,
                           requestInterceptors, responseInterceptors, Returns, Returns)
              t == Tracked(s, [optHeaders |-> call.headers,
                               defaultsAt |-> defaultHeaders,
                               headersObj |-> HeadersObject(r),
                               reqAtStart |-> Len(requestInterceptors),
                               respAtStart |-> 0])
          IN  /\ req' = [req EXCEPT ![r] = t]
              /\ defaultHeaders' = DefaultsAfter(t)
    /\ UNCHANGED <<baseURL, requestInterceptors, responseInterceptors>>

\* A request interceptor returned: the loop of runRequestInterceptors goes on.
RequestInterceptorReturns(r) ==
    /\ req[r].pc = "reqChain"
    /\ LET t == RequestChainStep(Deref(req[r]), requestInterceptors, responseInterceptors,
                                 Returns, Returns)
       IN  /\ req' = [req EXCEPT ![r] = t]
           /\ defaultHeaders' = DefaultsAfter(t)
    /\ UNCHANGED <<baseURL, requestInterceptors, responseInterceptors>>

\* The transport answered: the response chain begins.
TransportAnswers(r) ==
    /\ req[r].pc = "fetch"
    /\ \E response \in ConcurrentResponses :
          req' = [req EXCEPT ![r] =
                    [HandleResponse(req[r], response, responseInterceptors, Returns, Returns)
                        EXCEPT !.respAtStart = Len(responseInterceptors)]]
    /\ UNCHANGED Facade

\* A response interceptor returned: the loop of runResponseInterceptors goes on.
ResponseInterceptorReturns(r) ==
    /\ req[r].pc = "respChain"
    /\ req' = [req EXCEPT ![r] = TryChainStep(req[r], responseInterceptors, Returns, Returns)]
    /\ UNCHANGED Facade

ConcurrentNext ==
    \/ \E r \in Slots : Invoke(r)
    \/ \E r \in Slots : RequestInterceptorReturns(r)
    \/ \E r \in Slots : TransportAnswers(r)
    \/ \E r \in Slots : ResponseInterceptorReturns(r)
    \/ setDefaultHeader
    \/ addRequestInterceptor
    \/ addResponseInterceptor

ConcurrentSpec == ConcurrentInit /\ [][ConcurrentNext]_vars

\* ------------------------------------------------------------------------
\* ApiService.buildUrl on its own
\* ------------------------------------------------------------------------
\* Base addresses, endpoint templates and mappings buildUrl is applied to.
UrlBases == { <<>>, <<"h">>, <<"h", ":", "i", "d">> }

UrlEndpoints ==
    { <<"/", "u">>,
      <<"/", "u", "/", ":", "i", "d">>,
      <<"/", ":", "i", "/", ":", "d">>,
      <<"/", ":", "i", "d", "/", ":", "i">>,
      <<"/", ":", "x", "/", ":", "i", "d">> }

UrlKeys   == { <<"i">>, <<"d">>, <<"i", "d">> }
UrlValues == { <<"7">>, <<"d">>, <<":", "d">>, <<"a", " ">> }

\* Mappings of at most two keys, in every order of their keys.
UrlPathParams ==
    { <<>> }
    \cup { << <<k, v>> >> : k \in UrlKeys, v \in UrlValues }
    \cup { << <<kk[1], v>>, <<kk[2], <<"7">> >> >> :
               kk \in { p \in UrlKeys \X UrlKeys : p[1] # p[2] }, v \in UrlValues }

UrlQueryParams == { <<>>, << << <<"a">>, <<"x", " ">> >> >> }

NoUrlCall ==
    [pc |-> "idle", endpoint |-> <<>>, pathParams |-> <<>>, queryParams |-> <<>>,
     url |-> <<>>]

UrlInit ==
    /\ baseURL \in UrlBases
    /\ defaultHeaders = ("Content-Type" :> "application/json")
    /\ requestInterceptors = <<>>
    /\ responseInterceptors = <<>>
    /\ req = [r \in {1} |-> NoUrlCall]

\* One call of buildUrl; the arguments are kept next to the result.
BuildUrlCall(r) ==
    /\ req[r].pc = "idle"
    /\ \E endpoint \in UrlEndpoints, pathParams \in UrlPathParams,
          queryParams \in UrlQueryParams :
          req' = [req EXCEPT ![r] =
                    [pc |-> "built", endpoint |-> endpoint, pathParams |-> pathParams,
                     queryParams |-> queryParams,
                     url |-> buildUrl(baseURL, endpoint, pathParams, queryParams)]]
    /\ UNCHANGED Facade

UrlNext == \E r \in Slots : BuildUrlCall(r)

UrlSpec == UrlInit /\ [][UrlNext]_vars

\* ------------------------------------------------------------------------
\* One call, with interceptors registered without bound while it runs
\* ------------------------------------------------------------------------
\* A chain's loop reads an interceptor list at its position and beyond, never
\* the entries it has passed, and the lists only grow at their end.  With one
\* call alone, requestInterceptors and responseInterceptors here hold the part
\* of this.requestInterceptors and this.responseInterceptors that the call's
\* loop has yet to visit (for a call not yet in the chain, the whole list), and
\* the loop's position is 0; the record of what the call did is not kept.
\* Interceptors return; the request interceptors registered set a header.
Unvisited(list, t, inChain) ==
    IF t.pc = inChain THEN SubSeq(list, 2, Len(list)) ELSE list

AtLoopStart(t) ==
    [t EXCEPT !.i = 0, !.j = 0, !.reqLog = <<>>, !.respLog = <<>>,
              !.reqExit = <<>>, !.respExit = <<>>, !.registered = <<>>]

LiveInit == Init

LiveInvoke(r) ==
    /\ Free(r)
    /\ \E method \in ConcurrentMethods, call \in Calls :
          LET body == IF method = "GET" THEN "undefined" ELSE "object"
              t == request(method, call.endpoint,
                           [body |-> body, headers |-> call.headers,
                            pathParams |-> call.pathParams,
                            queryParams |-> call.queryParams],
                           baseURL, defaultHeaders,
                           requestInterceptors, responseInterceptors, Returns, Returns)
          IN  /\ req' = [req EXCEPT ![r] = AtLoopStart(t)]
              /\ requestInterceptors' = Unvisited(requestInterceptors, t, "reqChain")
    /\ UNCHANGED <<baseURL, defaultHeaders, responseInterceptors>>

\* The request interceptor awaited returned: the loop tests the list again.
LiveResumeRequestChain(r) ==
    /\ req[r].pc = "reqChain"
    /\ LET t == RequestChainStep(req[r], requestInterceptors, responseInterceptors,
                                 Returns, Returns)
       IN  /\ req' = [req EXCEPT ![r] = AtLoopStart(t)]
           /\ requestInterceptors' = Unvisited(requestInterceptors, t, "reqChain")
    /\ UNCHANGED <<baseURL, defaultHeaders, responseInterceptors>>

\* The transport answered.
LiveTransportAnswers(r) ==
    /\ req[r].pc = "fetch"
    /\ \E response \in Responses :
          LET t == HandleResponse(req[r], response, responseInterceptors, Returns, Returns)
          IN  /\ req' = [req EXCEPT ![r] = AtLoopStart(t)]
              /\ responseInterceptors' = Unvisited(responseInterceptors, t, "respChain")
    /\ UNCHANGED <<baseURL, defaultHeaders, requestInterceptors>>

\* The response interceptor awaited returned: the loop tests the list again.
LiveResumeResponseChain(r) ==
    /\ req[r].pc = "respChain"
    /\ LET t == IF req[r].phase = "try"
                THEN TryChainStep(req[r], responseInterceptors, Returns, Returns)
                ELSE CatchChainStep(req[r], responseInterceptors, Returns)
       IN  /\ req' = [req EXCEPT ![r] = AtLoopStart(t)]
           /\ responseInterceptors' = Unvisited(responseInterceptors, t, "respChain")
    /\ UNCHANGED <<baseURL, defaultHeaders, requestInterceptors>>

\* addRequestInterceptor, called by anyone, an interceptor in flight included:
\* at most MaxInterceptors entries wait to be visited.
LiveAddRequestInterceptor ==
    /\ Registered < MaxInterceptors
    /\ requestInterceptors' = Append(requestInterceptors, "auth")
    /\ UNCHANGED <<baseURL, defaultHeaders, responseInterceptors, req>>

LiveNext ==
    \/ \E r \in Slots : LiveInvoke(r)
    \/ \E r \in Slots : LiveResumeRequestChain(r)
    \/ \E r \in Slots : LiveTransportAnswers(r)
    \/ \E r \in Slots : LiveResumeResponseChain(r)
    \/ setDefaultHeader
    \/ LiveAddRequestInterceptor
    \/ addResponseInterceptor

\* The transport answers and every interceptor invocation returns: a call
\* that can go on does go on.
LiveFairness ==
    /\ WF_vars(LiveResumeRequestChain(1))
    /\ WF_vars(LiveTransportAnswers(1))
    /\ WF_vars(LiveResumeResponseChain(1))

LiveSpec == LiveInit /\ [][LiveNext]_vars /\ LiveFairness

\* ------------------------------------------------------------------------
\* Properties
\* ------------------------------------------------------------------------
BodyMethods == { "POST", "PUT", "PATCH" }

Last(q)    == q[Len(q)]
Ids(log)   == [k \in 1..Len(log) |-> log[k].id]
AllOk(log) == \A k \in 1..Len(log) : log[k].ok
RunLog(s, run) == SelectSeq(s.respLog, LAMBDA e : e.run = run)

\* Each invocation received what the one before it returned, the first one
\* received input, and each returned what its transform makes of its input.
Piped(log, input) ==
    \A k \in 1..Len(log) : log[k].in = IF k = 1 THEN input ELSE log[k - 1].out

\* The NETWORK_ERROR envelope the handler is to build for a caught value.
ExpectedNetworkError(err) ==
    [success |-> FALSE,
     error |-> [type |-> "NETWORK_ERROR",
                message |-> IF err.message = Undefined THEN "Network error"
                            ELSE err.message,
                details |-> err]]

NoResponseInterceptorFault(s) == AllOk(s.respLog)
RequestInterceptorFaulted(s)  == ~AllOk(s.reqLog)

\* C1: every call of post/put/patch whose body is a string, a number or a
\* boolean returns a VALIDATION_ERROR envelope and never invokes the transport.
C1_PrimitiveBodyRejected ==
    \A r \in Slots :
        (req[r].method \in BodyMethods /\ Primitive(req[r].body)) =>
            /\ req[r].fetches = 0
            /\ req[r].pc = "returned"
            /\ ~req[r].env.success
            /\ req[r].env.error.type = "VALIDATION_ERROR"

\* C2: every error envelope returned to the caller went through every
\* response interceptor registered at that moment, in registration order.
C2_ErrorEnvelopesIntercepted ==
    \A r \in Slots :
        (req[r].pc = "returned" /\ ~req[r].env.success) =>
            Ids(RunLog(req[r], Len(req[r].chainIn))) = req[r].registered

\* C3: as long as no response interceptor faults, a call never raises to its
\* caller, whatever fails on the request path and whatever value a request
\* interceptor or the transport raises.
C3_NeverRaises ==
    \A r \in Slots :
        NoResponseInterceptorFault(req[r]) => req[r].pc # "raised"

\* C4 as claimed: a request interceptor that faults aborts the request (no
\* later request interceptor runs, no transport call) and the envelope built
\* is success=false with error.type UNKNOWN_ERROR.
C4_RequestInterceptorFaultIsUnknownError ==
    \A r \in Slots :
        LET s == req[r]
        IN  RequestInterceptorFaulted(s) =>
                /\ ~Last(s.reqLog).ok
                /\ AllOk(SubSeq(s.reqLog, 1, Len(s.reqLog) - 1))
                /\ s.fetches = 0
                /\ Len(s.built) = 1
                /\ ~s.built[1].success
                /\ s.built[1].error.type = "UNKNOWN_ERROR"

\* C4 amended: a request interceptor that faults aborts the request: it is the
\* last one invoked, every interceptor before it was invoked once, in order,
\* and the transport is never called.  A fault value other than null or
\* undefined becomes a success=false envelope of type NETWORK_ERROR handed to
\* the response chain; null or undefined makes the call raise a TypeError,
\* no envelope being built.
C4_RequestInterceptorFaultAborts ==
    \A r \in Slots :
        LET s   == req[r]
            err == Last(s.reqLog).fault
        IN  RequestInterceptorFaulted(s) =>
                /\ ~Last(s.reqLog).ok
                /\ AllOk(SubSeq(s.reqLog, 1, Len(s.reqLog) - 1))
                /\ Ids(s.reqLog) = SubSeq(requestInterceptors, 1, Len(s.reqLog))
                /\ s.pc \notin { "reqChain", "fetch" }
                /\ s.fetches = 0
                /\ s.settled = "no"
                /\ IF err.kind = "nullish"
                   THEN s.pc = "raised" /\ s.fault = ErrTypeError /\ s.built = <<>>
                   ELSE /\ s.built = <<ExpectedNetworkError(err)>>
                        /\ s.chainIn = <<[phase |-> "catch",
                                          env |-> ExpectedNetworkError(err)]>>

\* A call whose first request interceptor faulted returned an envelope; the
\* second registered interceptor never ran.
C4_Witness ==
    \E r \in Slots :
        /\ RequestInterceptorFaulted(req[r])
        /\ req[r].pc = "returned"
        /\ Len(req[r].reqLog) = 1
        /\ Len(requestInterceptors) = 2

C6_ChainsRunInRegistrationOrder ==
    \A r \in Slots :
        LET s == req[r]
        IN  /\ Ids(s.reqLog) = SubSeq(requestInterceptors, 1, Len(s.reqLog))
            /\ Piped(s.reqLog, s.cfgIn)
            /\ \A k \in 1..Len(s.reqLog) :
                   s.reqLog[k].ok =>
                       s.reqLog[k].out =
                           ApplyRequestInterceptor(s.reqLog[k].id, s.reqLog[k].in)
            /\ s.pc = "reqChain" => s.i = Len(s.reqLog) /\ AllOk(s.reqLog)
            /\ s.pc = "fetch" =>
                   /\ Ids(s.reqLog) = s.reqExit
                   /\ AllOk(s.reqLog)
                   /\ s.config = IF s.reqLog = <<>> THEN s.cfgIn ELSE Last(s.reqLog).out
            /\ \A run \in 1..Len(s.chainIn) :
                   LET log == RunLog(s, run)
                   IN  /\ Ids(log) = SubSeq(responseInterceptors, 1, Len(log))
                       /\ Piped(log, s.chainIn[run].env)
                       /\ \A k \in 1..Len(log) :
                              log[k].ok =>
                                  log[k].out = ApplyResponseInterceptor(log[k].id, log[k].in)
            /\ (s.pc = "returned" /\ s.chainIn # <<>>) =>
                   LET log == RunLog(s, Len(s.chainIn))
                   IN  /\ Ids(log) = s.respExit
                       /\ AllOk(log)
                       /\ s.env = IF log = <<>> THEN Last(s.chainIn).env ELSE Last(log).out

\* Two different request interceptors ran one after the other and the
\* transport was called with what the second returned.
C6_Witness ==
    \E r \in Slots :
        /\ req[r].pc = "fetch"
        /\ Len(req[r].reqLog) = 2
        /\ req[r].reqLog[1].id # req[r].reqLog[2].id
        /\ req[r].reqLog[2].in = req[r].reqLog[1].out
        /\ req[r].reqLog[2].in # req[r].cfgIn

\* C7: no call invokes the transport more than once; a call whose body passes
\* validation, whose request interceptors all returned and whose body
\* serializes invokes it exactly once, with the url, method and headers of the
\* config the last request interceptor returned.
C7_ExactlyOneTransportCall ==
    \A r \in Slots :
        LET s == req[r]
        IN  /\ s.fetches <= 1
            /\ s.settled # "no" => s.fetches = 1
            /\ ( /\ s.pc \notin { "idle", "reqChain" }
                 /\ s.settled = "no"
                 /\ s.body \notin { "string", "number", "true" }
                 /\ AllOk(s.reqLog)
                 /\ s.config.body # "cyclic" ) =>
                   /\ s.pc = "fetch"
                   /\ s.fetches = 1
                   /\ s.config = IF s.reqLog = <<>> THEN s.cfgIn ELSE Last(s.reqLog).out
                   /\ s.call.url = s.config.url
                   /\ s.call.method = s.config.method
                   /\ s.call.headers = s.config.headers

\* The transport was called once with headers and method that a request
\* interceptor had changed.
C7_Witness ==
    \E r \in Slots :
        /\ req[r].pc = "fetch"
        /\ req[r].fetches = 1
        /\ req[r].call.headers # req[r].cfgIn.headers
        /\ req[r].call.method # req[r].cfgIn.method

\* C8: every envelope request() builds has success true iff it has no error
\* field; one with success=true has no error field, one with success=false
\* has no data field.
C8_EnvelopeShape ==
    \A r \in Slots :
        \A k \in 1..Len(req[r].built) :
            LET e == req[r].built[k]
            IN  /\ e.success <=> "error" \notin DOMAIN e
                /\ e.success => "data" \in DOMAIN e
                /\ ~e.success => "data" \notin DOMAIN e

\* One call built a success envelope and then, a response interceptor having
\* faulted on it, an error envelope.
C8_Witness ==
    \E r \in Slots :
        /\ Len(req[r].built) = 2
        /\ req[r].built[1].success
        /\ ~req[r].built[2].success

\* C9: when the transport call faults, the envelope handed to the response
\* chain is success=false of type NETWORK_ERROR with the fault's message (or
\* "Network error" when it has none), and the call does not raise.
C9_TransportFaultIsNetworkError ==
    \A r \in Slots :
        LET s == req[r]
        IN  s.settled = "fault" =>
                /\ NoResponseInterceptorFault(s) => s.pc # "raised"
                /\ Len(s.built) = 1
                /\ s.built[1] = ExpectedNetworkError(s.rejection)
                /\ s.chainIn = <<[phase |-> "catch", env |-> s.built[1]]>>

\* C10: a transport result with a status outside 200..299 is classified as
\* success=false, type API_ERROR, with the numeric status, the payload as
\* details and the payload's message field as message ("Request failed" when
\* the payload has none, an empty message counting as none).
C10_Non2xxIsApiError ==
    \A r \in Slots :
        LET s       == req[r]
            payload == s.response.body.value
        IN  (s.settled = "response" /\ s.response.status \notin 200..299) =>
                /\ Len(s.built) >= 1
                /\ s.built[1] =
                       [success |-> FALSE,
                        error |-> [type |-> "API_ERROR",
                                   status |-> s.response.status,
                                   details |-> payload,
                                   message |-> IF payload.message \notin { Undefined, "" }
                                               THEN payload.message
                                               ELSE "Request failed"]]

\* C11: a transport result with a status in 200..299 whose payload does not
\* parse as structured data is no error: the envelope classified is
\* success=true with the raw text of the payload as data.
C11_UnparseablePayloadIsRawText ==
    \A r \in Slots :
        LET s == req[r]
        IN  ( /\ s.settled = "response"
              /\ s.response.status \in 200..299
              /\ ~s.response.body.json ) =>
                /\ Len(s.built) >= 1
                /\ s.built[1] = [success |-> TRUE, data |-> s.response.body.value]

\* C12: the headers of the config given to the first request interceptor are
\* the default headers of the facade, as they were when the call was made,
\* overridden by the per-call headers: every per-call key has the caller's
\* value, every other default key its default value, and there is no other key.
C12_FirstInterceptorSeesMergedHeaders ==
    \A r \in Slots :
        LET s == req[r]
        IN  s.reqLog # <<>> =>
                LET h == s.reqLog[1].in.headers
                IN  /\ DOMAIN h = (DOMAIN s.defaultsAt) \cup (DOMAIN s.optHeaders)
                    /\ \A k \in DOMAIN s.optHeaders : h[k] = s.optHeaders[k]
                    /\ \A k \in (DOMAIN s.defaultsAt) \ (DOMAIN s.optHeaders) :
                           h[k] = s.defaultsAt[k]

\* A call that overrides the default Content-Type, made after an Authorization
\* default was set: its first request interceptor saw the caller's Content-Type
\* and the default Authorization.
C12_Witness ==
    \E r \in Slots :
        /\ req[r].reqLog # <<>>
        /\ req[r].optHeaders = ("Content-Type" :> "text/plain")
        /\ DOMAIN req[r].defaultsAt = { "Content-Type", "Authorization" }
        /\ req[r].reqLog[1].in.headers =
               ("Content-Type" :> "text/plain" @@ "Authorization" :> "token")

\* The characters of a placeholder name, and the length of the name that
\* starts at position k of s.
NameChars == { "a", "h", "i", "d", "u", "x", "7", "_" }

RECURSIVE NameLen(_, _)
NameLen(s, k) ==
    IF k <= Len(s) /\ s[k] \in NameChars THEN 1 + NameLen(s, k + 1) ELSE 0

HasKey(pathParams, name)  == \E k \in 1..Len(pathParams) : pathParams[k][1] = name
ValueOf(pathParams, name) ==
    pathParams[CHOOSE k \in 1..Len(pathParams) : pathParams[k][1] = name][2]

\* The template read token by token from position k: the token `:name` of a
\* mapped name becomes the encoded value, everything else stays as it is.
RECURSIVE SubstituteTokens(_, _, _)
SubstituteTokens(template, k, pathParams) ==
    IF k > Len(template) THEN <<>>
    ELSE IF template[k] = ":" /\ NameLen(template, k + 1) > 0
    THEN LET n    == NameLen(template, k + 1)
             name == SubSeq(template, k + 1, k + n)
         IN  (IF HasKey(pathParams, name)
              THEN encodeURIComponent(ValueOf(pathParams, name))
              ELSE SubSeq(template, k, k + n))
             \o SubstituteTokens(template, k + n + 1, pathParams)
    ELSE <<template[k]>> \o SubstituteTokens(template, k + 1, pathParams)

QuerySuffix(queryParams) ==
    IF queryParams = <<>> THEN <<>> ELSE <<"?">> \o JoinQuery(queryParams)

\* C13: buildUrl replaces the placeholder token of each mapped key once with
\* the encoded value, matches neither inside the base address nor inside text
\* an earlier substitution produced, leaves the tokens of unmapped names as
\* they are, and returns base + template when the mapping is empty.
C13_PlaceholdersSubstituted ==
    \A r \in Slots :
        LET s == req[r]
        IN  s.pc = "built" =>
                s.url = baseURL \o SubstituteTokens(s.endpoint, 1, s.pathParams)
                        \o QuerySuffix(s.queryParams)

\* C14: an interceptor registered while a call is suspended inside its request
\* chain (its response chain) is never invoked for that call: a chain invokes
\* no more interceptors than were registered when it began.
C14_LateInterceptorNotInvoked ==
    \A r \in Slots :
        /\ Len(req[r].reqLog) <= req[r].reqAtStart
        /\ Len(req[r].respLog) <= req[r].respAtStart

\* The default headers overridden by the per-call headers.
ExpectedMerge(defaults, extra) ==
    [k \in (DOMAIN defaults) \cup (DOMAIN extra) |->
        IF k \in DOMAIN extra THEN extra[k] ELSE defaults[k]]

\* The headers a call in flight has come to: those it began with, or those
\* the request interceptor invoked last returned.
HeadersSoFar(s) ==
    IF s.reqLog = <<>> THEN s.cfgIn.headers ELSE Last(s.reqLog).out.headers

\* C15: a call reads the default headers when it is invoked.  Its headers begin
\* as the defaults of that moment (every setDefaultHeader made before it
\* included) under the per-call headers; whatever setDefaultHeader does while
\* the call is in flight, each request interceptor is given the headers the one
\* before it returned, and the transport those the last one returned.
C15_DefaultsReadAtInvocation ==
    \A r \in Slots :
        LET s == req[r]
        IN  HoldsConfig(s) =>
                /\ s.cfgIn.headers = ExpectedMerge(s.defaultsAt, s.optHeaders)
                /\ \A k \in 1..Len(s.reqLog) :
                       s.reqLog[k].in.headers =
                           IF k = 1 THEN s.cfgIn.headers ELSE s.reqLog[k - 1].out.headers
                /\ HeadersOf(s) = HeadersSoFar(s)
                /\ s.pc = "fetch" => s.call.headers = HeadersSoFar(s)

\* setDefaultHeader was called while one call was at the transport, after two
\* request interceptors had run for it: that call has no Authorization default,
\* and the call invoked afterwards has it.
C15_Witness ==
    \E r \in Slots, q \in Slots :
        /\ req[r].pc = "fetch"
        /\ Len(req[r].reqLog) = 2
        /\ "Authorization" \notin DOMAIN req[r].defaultsAt
        /\ req[r].call.headers = HeadersSoFar(req[r])
        /\ HoldsConfig(req[q])
        /\ req[q].defaultsAt = defaultHeaders
        /\ "Authorization" \in DOMAIN req[q].cfgIn.headers
        /\ req[q].cfgIn.headers["Authorization"] = "token"

\* The config a call in flight holds, its headers read through their object.
Seen(r) == IF HoldsConfig(req[r]) THEN Deref(req[r]).config ELSE NoConfig

InterceptorInvoked(r) == Len(req'[r].reqLog) > Len(req[r].reqLog)

\* C16: calls of one facade share no state of their own.  A step in which a
\* request interceptor is invoked for one call (and writes the headers, url or
\* method of the config it is given) changes neither this.defaultHeaders nor
\* the config any other call holds, and a call made later begins with the
\* defaults under its own per-call headers.
C16_NoSharedRequestState ==
    [][\A r \in Slots :
          /\ InterceptorInvoked(r) =>
                /\ defaultHeaders' = defaultHeaders
                /\ \A q \in Slots \ { r } : req'[q] = req[q] /\ Seen(q)' = Seen(q)
          /\ (Free(r) /\ HoldsConfig(req'[r])) =>
                req'[r].cfgIn.headers = ExpectedMerge(defaultHeaders, req'[r].optHeaders)
      ]_vars

\* Two calls in flight: the request interceptors set Authorization and changed
\* url and method in the config of one; the other, invoked before they were
\* registered, and this.defaultHeaders have no Authorization.
C16_Witness ==
    \E r \in Slots, q \in Slots :
        /\ HoldsConfig(req[r]) /\ HoldsConfig(req[q])
        /\ Len(req[r].reqLog) = 2
        /\ Seen(r).headers # req[r].cfgIn.headers
        /\ Seen(r).url # req[r].cfgIn.url
        /\ req[q].reqLog = <<>>
        /\ "Authorization" \in DOMAIN Seen(r).headers
        /\ "Authorization" \notin DOMAIN Seen(q).headers
        /\ "Authorization" \notin DOMAIN defaultHeaders

\* The envelope request() is to build when serializing the body faults.
ExpectedStringifyError(err, e) ==
    /\ ~e.success
    /\ e.error.type = "VALIDATION_ERROR"
    /\ e.error.details = err

\* C17: a call that ends with a VALIDATION_ERROR envelope never invoked the
\* transport.  In particular, when serializing the body of the config the
\* request interceptors returned faults, the call returns success=false of
\* type VALIDATION_ERROR with that fault as details, and the transport call
\* is skipped.
C17_ValidationErrorSkipsTransport ==
    \A r \in Slots :
        LET s == req[r]
        IN  /\ ( /\ s.pc = "returned"
                 /\ ~s.env.success
                 /\ s.env.error.type = "VALIDATION_ERROR" ) =>
                   s.fetches = 0 /\ s.settled = "no"
            /\ ( /\ s.pc \notin { "idle", "reqChain" }
                 /\ s.settled = "no"
                 /\ AllOk(s.reqLog)
                 /\ Truthy(s.config.body)
                 /\ StringifyFaults(s.config.body) ) =>
                   /\ s.pc = "returned"
                   /\ ExpectedStringifyError(ErrCircular, s.env)
                   /\ s.built = <<s.env>>
                   /\ s.fetches = 0

\* A call whose body cannot be serialized went through two request
\* interceptors and returned VALIDATION_ERROR without a transport call.
C17_Witness ==
    \E r \in Slots :
        /\ req[r].pc = "returned"
        /\ req[r].body = "cyclic"
        /\ Len(req[r].reqLog) = 2
        /\ req[r].env.error.type = "VALIDATION_ERROR"
        /\ req[r].env.error.details = ErrCircular
        /\ req[r].fetches = 0

\* C18: no envelope request() builds has error.type TIMEOUT_ERROR, and an
\* envelope it builds has a (numeric) error.status only when its error.type
\* is API_ERROR.
C18_NoTimeoutErrorStatusOnlyOnApiError ==
    \A r \in Slots :
        \A k \in 1..Len(req[r].built) :
            LET e == req[r].built[k]
            IN  ~e.success =>
                    /\ e.error.type # "TIMEOUT_ERROR"
                    /\ "status" \in DOMAIN e.error =>
                           /\ e.error.type = "API_ERROR"
                           /\ e.error.status \in Int

\* One call built an API_ERROR envelope with status 401 and then, a response
\* interceptor having faulted on it, a NETWORK_ERROR envelope without status.
C18_Witness ==
    \E r \in Slots :
        /\ Len(req[r].built) = 2
        /\ ~req[r].built[1].success
        /\ req[r].built[1].error.type = "API_ERROR"
        /\ req[r].built[1].error.status = 401
        /\ req[r].built[2].error.type = "NETWORK_ERROR"
        /\ "status" \notin DOMAIN req[r].built[2].error

\* C19: within one call the response chain is started at most once and each
\* registered response interceptor is invoked at most once, also when a
\* response interceptor faults on the success or API_ERROR envelope.
C19_ResponseChainRunsOnce ==
    \A r \in Slots :
        /\ Len(req[r].chainIn) <= 1
        /\ Len(req[r].respLog) <= Len(responseInterceptors)

\* C20: every call completes (returns an envelope or raises) when the
\* transport answers and every interceptor invocation returns, also when
\* further interceptors are registered while the call's chain is running.
C20_EveryRequestCompletes ==
    (req[1].pc # "idle") ~> (req[1].pc \in { "returned", "raised" })

====
